---- MODULE Spec2Model ----
(***************************************************************************)
(* django-flag: the flag bookkeeping of flag/models.py.                    *)
(*                                                                         *)
(* The store holds the FlaggedContent rows (one aggregate per flagged      *)
(* object) and the FlagInstance rows (one per flagging action).  add_flag  *)
(* is modelled statement by statement, each database access being one      *)
(* step, so that several requests running add_flag interleave as they do   *)
(* against a shared database in autocommit mode.                           *)
(***************************************************************************)
EXTENDS Integers, Sequences, FiniteSets, TLC

\* ---------------------------------------------------------------- bounds
\* Number of add_flag calls started in one behaviour of interleaved requests.
MaxAdds == 2
\* Number of add_flag calls started in one behaviour of requests served in turn.
MaxSeqAdds == 4
\* The limits of flag.settings range over 0..MaxLimit (0: not set).
MaxLimit == 2

\* ---------------------------------------------------------------- domains
Procs == {"p1", "p2"}
Users == {"a", "b"}
Objects == {"o1"}
None == "None"
\* the (content_creator, comment, status) arguments add_flag is called with:
\* all three left out, or all three given
DataArgs == {[content_creator |-> None, comment |-> None, status |-> None],
             [content_creator |-> "a", comment |-> "comment", status |-> "2"]}
\* the creator argument of a direct FlaggedContent.objects.create
CreatorArgs == {None, "b"}
\* the statuses a moderator sets
ModeratorStatuses == {"3"}
Moderators == {"m"}

\* FlaggedContent.status: default="1"
DefaultStatus == "1"
\* FlaggedContent.count: default=1
DefaultCount == 1

ContentFlaggedEnoughException == "ContentFlaggedEnoughException"
ContentAlreadyFlaggedByUserException == "ContentAlreadyFlaggedByUserException"
IntegrityError == "IntegrityError"
Ok == "ok"

VARIABLES
    LIMIT_FOR_OBJECT,            \* flag.settings.LIMIT_FOR_OBJECT
    LIMIT_SAME_OBJECT_FOR_USER,  \* flag.settings.LIMIT_SAME_OBJECT_FOR_USER
    flagged_contents,            \* the FlaggedContent table: object -> row or NoRow
    flag_instances,              \* the FlagInstance table: a set of rows
    content_flagged,             \* the content_flagged signals sent so far
    pc,                          \* where each request is in add_flag
    args,                        \* the arguments of the running add_flag
    flagged_content,             \* add_flag's local flagged_content
    created,                     \* add_flag's local created
    flag_instance,               \* add_flag's local flag_instance (its pk, 0: none)
    ret,                         \* what the last add_flag of the request returned or raised
    started,                     \* number of add_flag calls started
    succeeded,                   \* per object, the add_flag calls that returned
    failed,                      \* per object, the add_flag calls that raised
    precreated,                  \* objects whose aggregate was created directly
    last_create,                 \* outcome of the last direct create
    num_rows,                    \* per object, the rows of the FlaggedContent table
    integrity_errors,            \* whether the table rejected the insert of the
                                 \* get_or_create that has just returned
    limit_reached                \* whether the object's count had reached the object
                                 \* limit when the last add_flag of the request was called

vars == <<LIMIT_FOR_OBJECT, LIMIT_SAME_OBJECT_FOR_USER, flagged_contents,
          flag_instances, content_flagged, pc, args, flagged_content, created,
          flag_instance, ret, started, succeeded, failed, precreated, last_create,
          num_rows, integrity_errors, limit_reached>>

config == <<LIMIT_FOR_OBJECT, LIMIT_SAME_OBJECT_FOR_USER>>
store == <<flagged_contents, flag_instances>>
locals == <<args, flagged_content, created, flag_instance>>
history == <<started, succeeded, failed, precreated, last_create, limit_reached>>
inserts == <<num_rows, integrity_errors>>

NoArgs == [flagger |-> None, object |-> None, content_creator |-> None,
           comment |-> None, status |-> None]
\* no row in the FlaggedContent table for an object
NoRow == [creator |-> None, status |-> None, moderator |-> None, count |-> 0]
\* no FlaggedContent instance in hand
NoInstance == [object |-> None, creator |-> None, status |-> None,
               moderator |-> None, count |-> 0]
NoRet == [kind |-> None, object |-> None, user |-> None, pk |-> 0, count |-> 0]

\* ---------------------------------------------------------------- the model

\* A FlaggedContent instance: the row of `object` as read from the table.
Instance(object) ==
    [object |-> object,
     creator |-> flagged_contents[object].creator,
     status |-> flagged_contents[object].status,
     moderator |-> flagged_contents[object].moderator,
     count |-> flagged_contents[object].count]

Exists(object) == flagged_contents[object] # NoRow

\* count_flags_by_user without the filter on the user
count_flags_by_anyone(self, user) ==
    Cardinality({f \in flag_instances : f.flagged_content = self.object})

\* FlaggedContent.count_flags_by_user
count_flags_by_user(self, user) ==
    Cardinality({f \in flag_instances :
                    f.flagged_content = self.object /\ f.user = user})

\* can_be_flagged comparing with <= in place of <
can_be_flagged_off_by_one(self) ==
    IF LIMIT_FOR_OBJECT = 0
    THEN TRUE
    ELSE self.count <= LIMIT_FOR_OBJECT

\* FlaggedContent.can_be_flagged
can_be_flagged(self) ==
    IF LIMIT_FOR_OBJECT = 0
    THEN TRUE
    ELSE self.count < LIMIT_FOR_OBJECT

\* FlaggedContent.assert_can_be_flagged: the exception raised, or Ok
assert_can_be_flagged(self) ==
    IF ~can_be_flagged(self)
    THEN ContentFlaggedEnoughException
    ELSE Ok

\* can_be_flagged_by_user without the check of the object's own limit
can_be_flagged_by_user_only(self, user) ==
    IF LIMIT_SAME_OBJECT_FOR_USER = 0
    THEN TRUE
    ELSE count_flags_by_user(self, user) < LIMIT_SAME_OBJECT_FOR_USER

\* FlaggedContent.can_be_flagged_by_user
can_be_flagged_by_user(self, user) ==
    IF LIMIT_SAME_OBJECT_FOR_USER = 0
    THEN TRUE
    ELSE IF ~can_be_flagged(self)
         THEN FALSE
         ELSE count_flags_by_user(self, user) < LIMIT_SAME_OBJECT_FOR_USER

\* assert_can_be_flagged_by_user checking the user's limit first
assert_user_limit_first(self, user) ==
    IF count_flags_by_user(self, user) >= LIMIT_SAME_OBJECT_FOR_USER
    THEN ContentAlreadyFlaggedByUserException
    ELSE assert_can_be_flagged(self)

\* assert_can_be_flagged_by_user without the check of the object's own limit
assert_user_limit_only(self, user) ==
    IF count_flags_by_user(self, user) >= LIMIT_SAME_OBJECT_FOR_USER
    THEN ContentAlreadyFlaggedByUserException
    ELSE Ok

\* FlaggedContent.assert_can_be_flagged_by_user: the exception raised, or Ok
assert_can_be_flagged_by_user(self, user) ==
    IF assert_can_be_flagged(self) # Ok
    THEN assert_can_be_flagged(self)
    ELSE IF count_flags_by_user(self, user) >= LIMIT_SAME_OBJECT_FOR_USER
         THEN ContentAlreadyFlaggedByUserException
         ELSE Ok

\* a table without the unique constraint: no insert is rejected
no_unique_together(object) == FALSE

\* Meta.unique_together = [("content_type", "object_id")]: an insert for an
\* object that has a row is rejected with IntegrityError.
unique_together(object) == Exists(object)

\* The row FlaggedContent.objects.create / get_or_create inserts: the given
\* creator, the given status or the field's default, the default count.
NewRow(content_creator, status) ==
    [creator |-> content_creator,
     status |-> IF status = None THEN DefaultStatus ELSE status,
     moderator |-> None,
     count |-> DefaultCount]

\* the increment done in the application: the count read earlier, plus one
count_plus_1_in_python(row, self) == self.count + 1

\* a save that writes the count back as it is stored
F_count_unchanged(row, self) == row.count

\* flagged_content.count = models.F("count") + 1: evaluated by the database
\* on the stored row when the UPDATE runs.
F_count_plus_1(row, self) == row.count + 1

\* flagged_content.save(): an UPDATE of every column of the row from the
\* instance, the count being the F expression.
SavedRow(row, self) ==
    [creator |-> self.creator,
     status |-> self.status,
     moderator |-> self.moderator,
     count |-> F_count_plus_1(row, self)]

Init ==
    /\ LIMIT_FOR_OBJECT \in 0..MaxLimit
    /\ LIMIT_SAME_OBJECT_FOR_USER \in 0..MaxLimit
    /\ flagged_contents = [o \in Objects |-> NoRow]
    /\ flag_instances = {}
    /\ content_flagged = {}
    /\ pc = [p \in Procs |-> "idle"]
    /\ args = [p \in Procs |-> NoArgs]
    /\ flagged_content = [p \in Procs |-> NoInstance]
    /\ created = [p \in Procs |-> FALSE]
    /\ flag_instance = [p \in Procs |-> 0]
    /\ ret = [p \in Procs |-> NoRet]
    /\ started = 0
    /\ succeeded = [o \in Objects |-> 0]
    /\ failed = [o \in Objects |-> 0]
    /\ precreated = {}
    /\ last_create = None
    /\ num_rows = [o \in Objects |-> 0]
    /\ integrity_errors = [p \in Procs |-> FALSE]
    /\ limit_reached = [p \in Procs |-> FALSE]

\* A request calls add_flag(flagger, content_type, object_id, content_creator,
\* comment, status).
Start(p) ==
    /\ pc[p] = "idle"
    /\ \E u \in Users, o \in Objects, d \in DataArgs :
          /\ args' = [args EXCEPT ![p] = [flagger |-> u, object |-> o,
                                          content_creator |-> d.content_creator,
                                          comment |-> d.comment,
                                          status |-> d.status]]
          /\ limit_reached' = [limit_reached EXCEPT
                ![p] = LIMIT_FOR_OBJECT > 0
                       /\ flagged_contents[o].count >= LIMIT_FOR_OBJECT]
    /\ pc' = [pc EXCEPT ![p] = "get"]
    /\ flagged_content' = [flagged_content EXCEPT ![p] = NoInstance]
    /\ created' = [created EXCEPT ![p] = FALSE]
    /\ flag_instance' = [flag_instance EXCEPT ![p] = 0]
    /\ ret' = [ret EXCEPT ![p] = NoRet]
    /\ started' = started + 1
    /\ UNCHANGED <<config, inserts, store, content_flagged, succeeded, failed, precreated, last_create>>

\* get_or_create, first half: the lookup.
Get(p) ==
    /\ pc[p] = "get"
    /\ IF Exists(args[p].object)
       THEN /\ flagged_content' = [flagged_content EXCEPT ![p] = Instance(args[p].object)]
            /\ pc' = [pc EXCEPT ![p] = "check"]
       ELSE /\ pc' = [pc EXCEPT ![p] = "create"]
            /\ UNCHANGED flagged_content
    /\ UNCHANGED <<config, inserts, store, content_flagged, args, created, flag_instance, ret, history>>

\* get_or_create, second half: the insert with the defaults; a row inserted in
\* between by someone else makes the insert fail on the unique constraint and
\* the row is fetched instead.
Create(p) ==
    /\ pc[p] = "create"
    /\ LET o == args[p].object IN
       IF ~unique_together(o)
       THEN /\ flagged_contents' = [flagged_contents EXCEPT
                  ![o] = NewRow(args[p].content_creator, args[p].status)]
            /\ num_rows' = [num_rows EXCEPT ![o] = @ + 1]
            /\ flagged_content' = [flagged_content EXCEPT
                  ![p] = [object |-> o] @@ NewRow(args[p].content_creator, args[p].status)]
            /\ created' = [created EXCEPT ![p] = TRUE]
            /\ UNCHANGED integrity_errors
       ELSE /\ integrity_errors' = [integrity_errors EXCEPT ![p] = TRUE]
            /\ flagged_content' = [flagged_content EXCEPT ![p] = Instance(o)]
            /\ UNCHANGED <<flagged_contents, num_rows, created>>
    /\ pc' = [pc EXCEPT ![p] = "check"]
    /\ UNCHANGED <<config, flag_instances, content_flagged, args, flag_instance, ret, history>>

\* flagged_content.assert_can_be_flagged_by_user(flagger): raises, or goes on
\* to the increment (if not created) or straight to the FlagInstance.
Check(p) ==
    /\ pc[p] = "check"
    /\ LET e == assert_can_be_flagged_by_user(flagged_content[p], args[p].flagger) IN
       IF e # Ok
       THEN /\ ret' = [ret EXCEPT ![p] = [kind |-> e, object |-> args[p].object,
                                          user |-> args[p].flagger, pk |-> 0,
                                          count |-> flagged_content[p].count]]
            /\ failed' = [failed EXCEPT ![args[p].object] = @ + 1]
            /\ pc' = [pc EXCEPT ![p] = "idle"]
            /\ args' = [args EXCEPT ![p] = NoArgs]
            /\ flagged_content' = [flagged_content EXCEPT ![p] = NoInstance]
            /\ created' = [created EXCEPT ![p] = FALSE]
       ELSE /\ pc' = [pc EXCEPT ![p] = IF created[p] THEN "insert" ELSE "save"]
            /\ UNCHANGED <<ret, failed, args, flagged_content, created>>
    /\ integrity_errors' = [integrity_errors EXCEPT ![p] = FALSE]
    /\ UNCHANGED <<config, num_rows, store, content_flagged, flag_instance, started,
                   succeeded, precreated, last_create, limit_reached>>

\* flagged_content.count = models.F("count") + 1; flagged_content.save()
Save(p) ==
    /\ pc[p] = "save"
    /\ flagged_contents' = [flagged_contents EXCEPT
          ![args[p].object] = SavedRow(@, flagged_content[p])]
    /\ pc' = [pc EXCEPT ![p] = "refetch"]
    /\ UNCHANGED <<config, inserts, flag_instances, content_flagged, locals, ret, history>>

\* flagged_content = FlaggedContent.objects.get(pk=flagged_content.pk)
Refetch(p) ==
    /\ pc[p] = "refetch"
    /\ flagged_content' = [flagged_content EXCEPT ![p] = Instance(args[p].object)]
    /\ pc' = [pc EXCEPT ![p] = "insert"]
    /\ UNCHANGED <<config, inserts, store, content_flagged, args, created, flag_instance, ret, history>>

\* flag_instance = FlagInstance(...); flag_instance.save()
Insert(p) ==
    /\ pc[p] = "insert"
    /\ LET pk == Cardinality(flag_instances) + 1 IN
       /\ flag_instances' = flag_instances \cup
             {[pk |-> pk, flagged_content |-> args[p].object,
               user |-> args[p].flagger, comment |-> args[p].comment]}
       /\ flag_instance' = [flag_instance EXCEPT ![p] = pk]
    /\ pc' = [pc EXCEPT ![p] = "signal"]
    /\ UNCHANGED <<config, inserts, flagged_contents, content_flagged, args, flagged_content,
                   created, ret, history>>

\* a notification sent without the FlagInstance just stored
NotificationWithoutInstance(p) ==
    [flagged_content |-> flagged_content[p].object,
     count |-> flagged_content[p].count,
     flagged_instance |-> 0]

\* What content_flagged.send carries: the flagged_content at hand (its object
\* and its count) and the flag_instance just stored.
Notification(p) ==
    [flagged_content |-> flagged_content[p].object,
     count |-> flagged_content[p].count,
     flagged_instance |-> flag_instance[p]]

\* signals.content_flagged.send(...); return flag_instance
Signal(p) ==
    /\ pc[p] = "signal"
    /\ content_flagged' = content_flagged \cup {Notification(p)}
    /\ ret' = [ret EXCEPT ![p] = [kind |-> Ok, object |-> args[p].object,
                                  user |-> args[p].flagger, pk |-> flag_instance[p],
                                  count |-> flagged_content[p].count]]
    /\ succeeded' = [succeeded EXCEPT ![args[p].object] = @ + 1]
    /\ pc' = [pc EXCEPT ![p] = "idle"]
    /\ args' = [args EXCEPT ![p] = NoArgs]
    /\ flagged_content' = [flagged_content EXCEPT ![p] = NoInstance]
    /\ created' = [created EXCEPT ![p] = FALSE]
    /\ flag_instance' = [flag_instance EXCEPT ![p] = 0]
    /\ UNCHANGED <<config, inserts, store, started, failed, precreated, last_create,
                   limit_reached>>

\* FlaggedContent.objects.create(content_type, object_id[, creator]): a direct
\* insert; unique_together rejects a second row for the same object.
CreateFlaggedContent(o, cc) ==
    /\ last_create = None
    /\ IF unique_together(o)
       THEN /\ last_create' = IntegrityError
            /\ UNCHANGED <<flagged_contents, num_rows, precreated>>
       ELSE /\ flagged_contents' = [flagged_contents EXCEPT ![o] = NewRow(cc, None)]
            /\ num_rows' = [num_rows EXCEPT ![o] = @ + 1]
            /\ precreated' = precreated \cup {o}
            /\ last_create' = Ok
    /\ UNCHANGED <<config, integrity_errors, flag_instances, content_flagged, pc,
                   locals, ret, started, succeeded, failed, limit_reached>>

\* A moderator changes the status of an aggregate and is recorded on it.
Moderate(o, s, m) ==
    /\ Exists(o)
    /\ flagged_contents[o].status # s
    /\ flagged_contents' = [flagged_contents EXCEPT ![o].status = s, ![o].moderator = m]
    /\ UNCHANGED <<config, inserts, flag_instances, content_flagged, pc, locals, ret, history>>

AllIdle == \A p \in Procs : pc[p] = "idle"

Next ==
    \/ \E p \in Procs : started < MaxAdds /\ Start(p)
    \/ \E p \in Procs : Get(p)
    \/ \E p \in Procs : Create(p)
    \/ \E p \in Procs : Check(p)
    \/ \E p \in Procs : Save(p)
    \/ \E p \in Procs : Refetch(p)
    \/ \E p \in Procs : Insert(p)
    \/ \E p \in Procs : Signal(p)
    \/ \E o \in Objects, cc \in CreatorArgs : CreateFlaggedContent(o, cc)
    \/ \E o \in Objects, s \in ModeratorStatuses, m \in Moderators : Moderate(o, s, m)

Spec == Init /\ [][Next]_vars

\* The same program with its requests served one after the other.
SeqNext ==
    \/ \E p \in Procs : AllIdle /\ started < MaxSeqAdds /\ Start(p)
    \/ \E p \in Procs : Get(p)
    \/ \E p \in Procs : Create(p)
    \/ \E p \in Procs : Check(p)
    \/ \E p \in Procs : Save(p)
    \/ \E p \in Procs : Refetch(p)
    \/ \E p \in Procs : Insert(p)
    \/ \E p \in Procs : Signal(p)
    \/ \E o \in Objects, cc \in CreatorArgs : CreateFlaggedContent(o, cc)
    \/ \E o \in Objects, s \in ModeratorStatuses, m \in Moderators : Moderate(o, s, m)

SeqSpec == Init /\ [][SeqNext]_vars

\* ---------------------------------------------------------------- properties

\* The FlagInstance rows of an object, and those of one user on it, counted
\* on the table itself.
NumInstances(o) ==
    Cardinality({f \in flag_instances : f.flagged_content = o})
NumInstancesOf(o, u) ==
    Cardinality({f \in flag_instances : f.flagged_content = o /\ f.user = u})

\* The instances at hand in a state: every stored aggregate as read from the
\* table, and every instance a running add_flag holds.
InstancesAtHand ==
    {Instance(o) : o \in {x \in Objects : Exists(x)}}
        \cup {flagged_content[p] : p \in {q \in Procs : flagged_content[q] # NoInstance}}

ObjectLimitReached(self) == LIMIT_FOR_OBJECT > 0 /\ self.count >= LIMIT_FOR_OBJECT
UserLimitReached(self, u) ==
    LIMIT_SAME_OBJECT_FOR_USER > 0
        /\ NumInstancesOf(self.object, u) >= LIMIT_SAME_OBJECT_FOR_USER

C2_NoPartialMutation ==
    \A o \in Objects :
        (AllIdle /\ succeeded[o] = 0 /\ o \notin precreated) =>
            (~Exists(o) /\ NumInstances(o) = 0)

\* C3: when no add_flag is running, the count of every aggregate equals the
\* number of FlagInstance rows created against it.
C3_CountEqualsInstances ==
    AllIdle => \A o \in Objects :
                  Exists(o) => flagged_contents[o].count = NumInstances(o)

\* C4: a limit of 0 means unlimited: with LIMIT_SAME_OBJECT_FOR_USER = 0 no
\* check and no add_flag raises ContentAlreadyFlaggedByUserException, and with
\* both limits 0 no add_flag raises.
C4_ZeroMeansUnlimited ==
    /\ LIMIT_SAME_OBJECT_FOR_USER = 0 =>
          /\ \A p \in Procs : ret[p].kind # ContentAlreadyFlaggedByUserException
          /\ \A self \in InstancesAtHand, u \in Users :
                assert_can_be_flagged_by_user(self, u)
                    # ContentAlreadyFlaggedByUserException
    /\ (LIMIT_SAME_OBJECT_FOR_USER = 0 /\ LIMIT_FOR_OBJECT = 0) =>
          \A o \in Objects : failed[o] = 0

\* C5: with an object limit L > 0 and the per-user limit set, the add_flag
\* calls made in turn on an object that had no aggregate are refused with
\* ContentFlaggedEnoughException only once L of them have succeeded, the
\* count being L then, and never more than L succeed.
C5_ExactlyLimitSucceed ==
    \A o \in Objects :
        (LIMIT_FOR_OBJECT > 0 /\ LIMIT_SAME_OBJECT_FOR_USER > 0 /\ o \notin precreated) =>
            /\ succeeded[o] <= LIMIT_FOR_OBJECT
            /\ \A p \in Procs :
                  (ret[p].kind = ContentFlaggedEnoughException /\ ret[p].object = o) =>
                      /\ succeeded[o] = LIMIT_FOR_OBJECT
                      /\ flagged_contents[o].count = LIMIT_FOR_OBJECT

\* C6: with a per-user limit U > 0 and no object limit, add_flag calls made in
\* turn never leave a user with more than U FlagInstance rows on an object,
\* raise ContentAlreadyFlaggedByUserException only for a user who has U of
\* them there (whatever the other users have), and raise nothing else.
C6_ExactlyUserLimitSucceed ==
    (LIMIT_SAME_OBJECT_FOR_USER > 0 /\ LIMIT_FOR_OBJECT = 0) =>
        /\ \A o \in Objects, u \in Users :
              NumInstancesOf(o, u) <= LIMIT_SAME_OBJECT_FOR_USER
        /\ \A p \in Procs :
              /\ ret[p].kind # ContentFlaggedEnoughException
              /\ ret[p].kind = ContentAlreadyFlaggedByUserException =>
                    NumInstancesOf(ret[p].object, ret[p].user)
                        = LIMIT_SAME_OBJECT_FOR_USER

\* C6 witness: both users have been refused on the same object, each after U
\* flags of their own.
C6_Witness ==
    /\ LIMIT_SAME_OBJECT_FOR_USER > 0 /\ LIMIT_FOR_OBJECT = 0
    /\ ret["p1"].kind = ContentAlreadyFlaggedByUserException /\ ret["p1"].user = "a"
    /\ ret["p2"].kind = ContentAlreadyFlaggedByUserException /\ ret["p2"].user = "b"
    /\ ret["p1"].object = ret["p2"].object
    /\ NumInstances(ret["p1"].object) = 2 * LIMIT_SAME_OBJECT_FOR_USER

\* C7: with LIMIT_FOR_OBJECT = L > 0, can_be_flagged is false exactly when
\* count >= L and assert_can_be_flagged raises ContentFlaggedEnoughException
\* exactly then; with L = 0 both accept whatever the count.
C7_CanBeFlagged ==
    \A self \in InstancesAtHand :
        /\ LIMIT_FOR_OBJECT > 0 =>
              /\ ~can_be_flagged(self) <=> self.count >= LIMIT_FOR_OBJECT
              /\ assert_can_be_flagged(self) = ContentFlaggedEnoughException
                    <=> self.count >= LIMIT_FOR_OBJECT
        /\ LIMIT_FOR_OBJECT = 0 =>
              /\ can_be_flagged(self)
              /\ assert_can_be_flagged(self) = Ok

\* C7 witness: an aggregate whose count is exactly the limit, refused, with
\* the limit above the count a new aggregate starts with.
C7_Witness ==
    /\ LIMIT_FOR_OBJECT > DefaultCount
    /\ \E o \in Objects :
          /\ Exists(o)
          /\ flagged_contents[o].count = LIMIT_FOR_OBJECT
          /\ ~can_be_flagged(Instance(o))
          /\ assert_can_be_flagged(Instance(o)) = ContentFlaggedEnoughException

\* C8 as stated: with LIMIT_SAME_OBJECT_FOR_USER = U > 0, can_be_flagged_by_user
\* is false exactly when the user has U or more FlagInstance rows on the
\* aggregate, whatever the count and LIMIT_FOR_OBJECT.
C8_Original ==
    LIMIT_SAME_OBJECT_FOR_USER > 0 =>
        \A self \in InstancesAtHand, u \in Users :
            ~can_be_flagged_by_user(self, u) <=> UserLimitReached(self, u)

\* C8 amended: with U > 0, can_be_flagged_by_user is false exactly when the
\* user has U or more FlagInstance rows on the aggregate or the aggregate has
\* reached LIMIT_FOR_OBJECT.
C8_CanBeFlaggedByUser ==
    LIMIT_SAME_OBJECT_FOR_USER > 0 =>
        \A self \in InstancesAtHand, u \in Users :
            ~can_be_flagged_by_user(self, u)
                <=> (UserLimitReached(self, u) \/ ObjectLimitReached(self))

\* C8 witness: a user below their own limit is refused on an aggregate that
\* has reached the object limit.
C8_Witness ==
    /\ LIMIT_SAME_OBJECT_FOR_USER > 0
    /\ \E o \in Objects, u \in Users :
          /\ Exists(o)
          /\ ObjectLimitReached(Instance(o))
          /\ ~UserLimitReached(Instance(o), u)
          /\ ~can_be_flagged_by_user(Instance(o), u)

\* C9: the object limit is checked first: on an instance that has reached
\* LIMIT_FOR_OBJECT for a user who has reached LIMIT_SAME_OBJECT_FOR_USER, the
\* assertive check raises ContentFlaggedEnoughException, and an add_flag that
\* raised ContentAlreadyFlaggedByUserException held an instance below the
\* object limit.
C9_ObjectLimitFirst ==
    /\ \A self \in InstancesAtHand, u \in Users :
          (ObjectLimitReached(self) /\ UserLimitReached(self, u)) =>
              assert_can_be_flagged_by_user(self, u) = ContentFlaggedEnoughException
    /\ \A p \in Procs :
          ret[p].kind = ContentAlreadyFlaggedByUserException =>
              (LIMIT_FOR_OBJECT = 0 \/ ret[p].count < LIMIT_FOR_OBJECT)

\* C9 witness: an add_flag by a user at their own limit, on an aggregate at
\* the object limit, has raised ContentFlaggedEnoughException.
C9_Witness ==
    \E p \in Procs :
        /\ ret[p].kind = ContentFlaggedEnoughException
        /\ Exists(ret[p].object)
        /\ ret[p].count = flagged_contents[ret[p].object].count
        /\ ObjectLimitReached(Instance(ret[p].object))
        /\ UserLimitReached(Instance(ret[p].object), ret[p].user)

\* C10: no step of add_flag changes the status or the creator of an aggregate
\* that already exists.
C10_StatusCreatorFrame ==
    [][\A o \in Objects :
          (pc' # pc /\ Exists(o)) =>
              /\ flagged_contents'[o].status = flagged_contents[o].status
              /\ flagged_contents'[o].creator = flagged_contents[o].creator]_vars

\* C11: the content_flagged notification is opt-in per call.  add_flag has no
\* argument by which a caller asks for it, so every call is made with the
\* default and none of them emits a notification.
C11_NotificationOptIn ==
    content_flagged = {}

\* C12: there is never more than one FlaggedContent row per object, however
\* the creations interleave, and an insert for an object that has a row
\* (by get_or_create or by a direct create) is rejected and leaves the row as
\* it was.
C12_OneAggregatePerObject ==
    [][/\ \A o \in Objects : num_rows'[o] <= 1
       /\ \A o \in Objects :
             (/\ Exists(o)
              /\ \/ last_create' # last_create
                 \/ \E p \in Procs : /\ pc[p] = "create" /\ pc'[p] = "check"
                                     /\ args[p].object = o) =>
                 /\ flagged_contents'[o] = flagged_contents[o]
                 /\ num_rows'[o] = num_rows[o]
       /\ \A p \in Procs :
             (pc[p] = "create" /\ pc'[p] = "check" /\ Exists(args[p].object)) =>
                 (integrity_errors'[p] /\ ~created'[p])
       /\ (last_create' # last_create /\ \A o \in Objects : Exists(o)) =>
             last_create' = IntegrityError]_vars

\* C12 witness: two add_flag calls both missed the row in their lookup, one
\* inserted it, the insert of the other was rejected, and so was a direct
\* create; the object has one row.
C12_Witness ==
    /\ last_create = IntegrityError
    /\ precreated = {}
    /\ \E p, q \in Procs, o \in Objects :
          /\ integrity_errors[p] /\ pc[p] = "check" /\ args[p].object = o
          /\ created[q] /\ args[q].object = o
          /\ num_rows[o] = 1

\* The comment policies of the configuration: comments required, or comments
\* not allowed.
CommentPolicies == {"required", "disallowed"}

\* C13: the comment policy is enforced by add_flag: under the policy
\* "required" no FlagInstance is recorded without a comment, under
\* "disallowed" none is recorded with one (the call raises and the count
\* stays as it was).
C13_CommentPolicy ==
    \A policy \in CommentPolicies :
        /\ policy = "required" => \A f \in flag_instances : f.comment # None
        /\ policy = "disallowed" => \A f \in flag_instances : f.comment = None

\* C14: the FlagInstance returned by the k-th add_flag that succeeds on an
\* object, the calls being made in turn, refers to a flagged_content whose
\* count is k.
C14_ReturnedCountIsK ==
    \A p \in Procs :
        ret[p].kind = Ok =>
            ret[p].count =
                Cardinality({f \in flag_instances :
                                f.flagged_content = ret[p].object /\ f.pk <= ret[p].pk})

\* C15: in every state, also between the steps of running add_flag calls, the
\* count of an aggregate is at least the number of its FlagInstance rows, and
\* an object without aggregate has none: the count moves first.
C15_CountBeforeInstance ==
    \A o \in Objects :
        /\ NumInstances(o) <= flagged_contents[o].count
        /\ ~Exists(o) => NumInstances(o) = 0

\* C15 witness: an add_flag on an aggregate made by an earlier add_flag has
\* stored its increment and not yet its FlagInstance: the count is one ahead.
C15_Witness ==
    /\ precreated = {}
    /\ \E p \in Procs :
          /\ pc[p] = "insert" /\ ~created[p]
          /\ NumInstances(args[p].object) >= 1
          /\ flagged_contents[args[p].object].count = NumInstances(args[p].object) + 1

\* C16: every notification sent carries an aggregate that exists, with a count
\* already incremented, and a FlagInstance that is stored for that aggregate;
\* no two notifications carry the same FlagInstance, and per object there are
\* as many notifications as add_flag calls that returned: one per success,
\* none for a call that raised.
C16_NotificationAfterSuccess ==
    /\ \A n \in content_flagged :
          /\ Exists(n.flagged_content)
          /\ n.count >= 1 /\ n.count <= flagged_contents[n.flagged_content].count
          /\ \E f \in flag_instances :
                f.pk = n.flagged_instance /\ f.flagged_content = n.flagged_content
    /\ \A n, m \in content_flagged :
          n.flagged_instance = m.flagged_instance => n = m
    /\ \A o \in Objects :
          Cardinality({n \in content_flagged : n.flagged_content = o}) = succeeded[o]

\* C16 witness: on one object an add_flag has returned and another has raised,
\* and exactly one notification was sent.
C16_Witness ==
    \E o \in Objects :
        /\ succeeded[o] = 1 /\ failed[o] = 1
        /\ Cardinality(content_flagged) = 1
        /\ AllIdle

\* C17: with LIMIT_FOR_OBJECT = L > 0 no aggregate ever has a count above L,
\* however the add_flag calls interleave.
C17_CountWithinObjectLimit ==
    LIMIT_FOR_OBJECT > 0 =>
        \A o \in Objects : flagged_contents[o].count <= LIMIT_FOR_OBJECT

\* C18: with LIMIT_SAME_OBJECT_FOR_USER = U > 0 no user ever has more than U
\* FlagInstance rows on one aggregate, however the add_flag calls interleave.
C18_InstancesWithinUserLimit ==
    LIMIT_SAME_OBJECT_FOR_USER > 0 =>
        \A o \in Objects, u \in Users :
            NumInstancesOf(o, u) <= LIMIT_SAME_OBJECT_FOR_USER

\* C19: for every instance, user and setting of the two limits,
\* can_be_flagged_by_user is true exactly when assert_can_be_flagged_by_user
\* returns without raising.
C19_BooleanAgreesWithAssertive ==
    \A self \in InstancesAtHand, u \in Users :
        can_be_flagged_by_user(self, u)
            <=> assert_can_be_flagged_by_user(self, u) = Ok

\* C20: the save of add_flag's increment leaves the stored status and
\* moderator as they are at that moment: what a moderator set after add_flag
\* read the aggregate is still there after the save.
C20_ModerationNotLost ==
    [][\A p \in Procs :
          (pc[p] = "save" /\ pc'[p] = "refetch") =>
              /\ flagged_contents'[args[p].object].status
                    = flagged_contents[args[p].object].status
              /\ flagged_contents'[args[p].object].moderator
                    = flagged_contents[args[p].object].moderator]_vars

\* C21: the object limit is absorbing.  No step lowers the count of an
\* aggregate or removes an aggregate, and an add_flag called when the count of
\* its object had reached the object limit L > 0 never gets past the check:
\* it changes neither table, sends no notification and ends by raising, never
\* by returning, whatever the other requests and the moderator do meanwhile.
C21_ObjectLimitAbsorbing ==
    [][/\ \A o \in Objects :
             /\ flagged_contents'[o].count >= flagged_contents[o].count
             /\ Exists(o) => flagged_contents'[o] # NoRow
       /\ \A p \in Procs :
             (limit_reached[p] /\ pc[p] # "idle") =>
                 /\ pc'[p] \in {"get", "check", "idle"}
                 /\ pc'[p] # pc[p] =>
                       /\ flagged_contents' = flagged_contents
                       /\ flag_instances' = flag_instances
                       /\ content_flagged' = content_flagged
                       /\ succeeded' = succeeded
                 /\ pc'[p] = "idle" =>
                       /\ ret'[p].kind \in {ContentFlaggedEnoughException,
                                           ContentAlreadyFlaggedByUserException}
                       /\ failed'[args[p].object] = failed[args[p].object] + 1]_vars

\* C21 witness: with L = 2, an aggregate brought to count 2 by a successful
\* add_flag, and an add_flag called after that has ended by raising
\* ContentFlaggedEnoughException, the count still being 2.
C21_Witness ==
    /\ LIMIT_FOR_OBJECT = 2
    /\ \E p \in Procs :
          /\ limit_reached[p]
          /\ pc[p] = "idle"
          /\ ret[p].kind = ContentFlaggedEnoughException
          /\ succeeded[ret[p].object] = 1
          /\ flagged_contents[ret[p].object].count = 2

====
